---- MODULE Spec2Model ----
(***************************************************************************)
(* Two parts of the simulator.                                             *)
(*                                                                         *)
(* The parser of the assembler (features/assembler/core/parser.ts):        *)
(* parse(tokens) turns a token sequence into statements or throws the      *)
(* first assembler error.  Every function of parser.ts is an operator of   *)
(* the same name; an exception is the result Throw(..), a returned value   *)
(* the result Ok(..).  The state machine runs the loop of parse, one       *)
(* parseStatement call per step, over an input that is fixed position by   *)
(* position, only as far as the parser reads.  Its specification is Spec.  *)
(*                                                                         *)
(* The Controller (features/controller/hooks.ts), which drives the         *)
(* execution engine from timers, user commands and store listeners.  Its   *)
(* methods are operators of the same name over a record of everything a    *)
(* method can touch; every task and microtask of the event loop is one     *)
(* action.  Its specification is ControllerSpec.                           *)
(***************************************************************************)
EXTENDS Integers, Sequences, FiniteSets, TLC

VARIABLES
  tokens,      \* Token[]: the input of parse, as far as it has been fixed
  ended,       \* TRUE once tokens is the whole input (tokens.length is fixed)
  index,       \* parse: the loop variable `index` (0-based)
  statements,  \* parse: the local array `statements`
  status,      \* "parsing", "returned" (parse returned) or "thrown"
  error,       \* the error parse threw, NoError before
  returned,    \* the Statement[] parse returned, <<>> before and when it threw
  store,       \* the state of the Redux store, as far as the Controller uses it
  controller,  \* the fields of the Controller instance
  intervals,   \* the active window.setInterval timers
  timeouts,    \* the pending window.setTimeout callbacks, oldest first
  listeners,   \* the registered listenAction(setSuspended, ..) listeners
  microtasks,  \* step calls awaiting lastStep, oldest first
  scenario,    \* the program that is loaded and whether the user sets breakpoints
  invocations, \* history: the last engine invocation since the last reset, if any
  stepCount    \* history: the number of engine invocations that returned so far

parserVars == <<tokens, ended, index, statements, status, error, returned>>

controllerVars ==
  <<store, controller, intervals, timeouts, listeners, microtasks, scenario,
    invocations, stepCount>>

vars == <<parserVars, controllerVars>>

(***************************************************************************)
(* Bounds.                                                                 *)
(***************************************************************************)
MaxTokens == 5
\* engine invocations that return: the program runs into an error at the
\* latest after that many steps
MaxSteps == 2
\* the same for the program that is debugged: stopping on a breakpoint,
\* leaving it and coming back to it takes three steps
MaxDebugSteps == 3
\* step calls that await lastStep at the same time
MaxPending == 2

(***************************************************************************)
(* Characters and the regular expressions of parser.ts.  A string is a     *)
(* sequence of one-character strings.                                      *)
(***************************************************************************)
UpperLetters ==
  {"A", "B", "C", "D", "E", "F", "G", "H", "I", "J", "K", "L", "M",
   "N", "O", "P", "Q", "R", "S", "T", "U", "V", "W", "X", "Y", "Z"}

DecimalDigits == {"0", "1", "2", "3", "4", "5", "6", "7", "8", "9"}

\* /^[A-Z_]+$/
LABEL_REGEXP(s) ==
  Len(s) >= 1 /\ \A i \in 1..Len(s) : s[i] \in UpperLetters \cup {"_"}

\* /^[\dA-F]+$/
NUMBER_REGEXP(s) ==
  /\ Len(s) >= 1
  /\ \A i \in 1..Len(s) : s[i] \in DecimalDigits \cup {"A", "B", "C", "D", "E", "F"}

\* /^[A-D]L$/
REGISTER_REGEXP(s) ==
  Len(s) = 2 /\ s[1] \in {"A", "B", "C", "D"} /\ s[2] = "L"

\* String.prototype.startsWith with a one-character argument
startsWith(s, c) == Len(s) >= 1 /\ s[1] = c

(***************************************************************************)
(* common/utils: hexToDec and stringToAscii, and the register numbering.   *)
(***************************************************************************)
HexDigitValue(c) ==
  CASE c = "0" -> 0 [] c = "1" -> 1 [] c = "2" -> 2 [] c = "3" -> 3
    [] c = "4" -> 4 [] c = "5" -> 5 [] c = "6" -> 6 [] c = "7" -> 7
    [] c = "8" -> 8 [] c = "9" -> 9 [] c = "A" -> 10 [] c = "B" -> 11
    [] c = "C" -> 12 [] c = "D" -> 13 [] c = "E" -> 14 [] c = "F" -> 15

RECURSIVE hexToDec(_)
hexToDec(s) ==
  IF s = <<>> THEN 0
  ELSE 16 * hexToDec(SubSeq(s, 1, Len(s) - 1)) + HexDigitValue(s[Len(s)])

\* the character code of the characters the model's strings use
CharCode(c) ==
  CASE c = "A" -> 65 [] c = "B" -> 66 [] c = "C" -> 67 [] c = "D" -> 68

stringToAscii(s) == [i \in 1..Len(s) |-> CharCode(s[i])]

\* enum GeneralPurposeRegister { AL, BL, CL, DL }
GeneralPurposeRegister(name) ==
  CASE name = <<"A", "L">> -> 0 [] name = <<"B", "L">> -> 1
    [] name = <<"C", "L">> -> 2 [] name = <<"D", "L">> -> 3

(***************************************************************************)
(* Mnemonics (common/constants).                                           *)
(***************************************************************************)
END == <<"E", "N", "D">>
INC == <<"I", "N", "C">>
DEC == <<"D", "E", "C">>
NOT == <<"N", "O", "T">>
ROL == <<"R", "O", "L">>
ROR == <<"R", "O", "R">>
SHL == <<"S", "H", "L">>
SHR == <<"S", "H", "R">>
JMP == <<"J", "M", "P">>
JZ == <<"J", "Z">>
JNZ == <<"J", "N", "Z">>
JS == <<"J", "S">>
JNS == <<"J", "N", "S">>
JO == <<"J", "O">>
JNO == <<"J", "N", "O">>
PUSH == <<"P", "U", "S", "H">>
POP == <<"P", "O", "P">>
CALL == <<"C", "A", "L", "L">>
INT == <<"I", "N", "T">>
IN_ == <<"I", "N">>
OUT == <<"O", "U", "T">>
ORG == <<"O", "R", "G">>
DB == <<"D", "B">>
ADD == <<"A", "D", "D">>
SUB == <<"S", "U", "B">>
MUL == <<"M", "U", "L">>
DIV == <<"D", "I", "V">>
MOD == <<"M", "O", "D">>
AND == <<"A", "N", "D">>
OR == <<"O", "R">>
XOR == <<"X", "O", "R">>
MOV == <<"M", "O", "V">>
CMP == <<"C", "M", "P">>

MnemonicWithNoOperand == {END}

MnemonicWithOneOperand ==
  {INC, DEC, NOT, ROL, ROR, SHL, SHR, JMP, JZ, JNZ, JS, JNS, JO, JNO,
   PUSH, POP, CALL, INT, IN_, OUT, ORG, DB}

MnemonicWithTwoOperands == {ADD, SUB, MUL, DIV, MOD, AND, OR, XOR, MOV, CMP}

Mnemonic ==
  MnemonicWithNoOperand \cup MnemonicWithOneOperand \cup MnemonicWithTwoOperands

MnemonicToOperandsCountMap(mnemonic) ==
  CASE mnemonic \in MnemonicWithNoOperand -> 0
    [] mnemonic \in MnemonicWithOneOperand -> 1
    [] mnemonic \in MnemonicWithTwoOperands -> 2

(***************************************************************************)
(* Tokens (tokenizer.ts): { type, value, raw, range }.  value is the text  *)
(* without brackets or quotes, raw the text as written.                    *)
(***************************************************************************)
Tok(type, value, raw) == [type |-> type, value |-> value, raw |-> raw]

UnknownTok(text) == Tok("Unknown", text, text)

AddressTok(text) == Tok("Address", text, <<"[">> \o text \o <<"]">>)

StringTok(text) == Tok("String", text, <<"\"">> \o text \o <<"\"">>)

\* the tokens an input is made of
TokenAlphabet ==
  { Tok("Colon", <<":">>, <<":">>),
    Tok("Comma", <<",">>, <<",">>),
    Tok("Digits", <<"0">>, <<"0">>),
    Tok("Digits", <<"1", "0">>, <<"1", "0">>),
    Tok("Digits", <<"1", "0", "0">>, <<"1", "0", "0">>),
    Tok("Register", <<"A", "L">>, <<"A", "L">>),
    AddressTok(<<"1", "0">>),
    AddressTok(<<"1", "0", "0">>),
    AddressTok(<<"B", "L">>),
    AddressTok(<<"1", "G">>),
    StringTok(<<"A">>),
    StringTok(<<"A", "B">>),
    UnknownTok(<<"F", "F">>),
    UnknownTok(<<"1", "F", "F">>),
    UnknownTok(<<"[", "1", "0">>),
    UnknownTok(<<"'">>),
    UnknownTok(<<"\"", "A">>),
    UnknownTok(MOV), UnknownTok(ADD), UnknownTok(CMP),
    UnknownTok(JMP), UnknownTok(DB), UnknownTok(ORG), UnknownTok(END) }

\* the token as the tokenizer places it after the tokens before it
Placed(t, before) ==
  LET from == IF before = <<>> THEN 0 ELSE before[Len(before)].range.to + 1
  IN  [type |-> t.type, value |-> t.value, raw |-> t.raw,
       range |-> [from |-> from, to |-> from + Len(t.raw)]]

NoToken ==
  [type |-> "none", value |-> <<>>, raw |-> <<>>, range |-> [from |-> 0, to |-> 0]]

(***************************************************************************)
(* Results: a returned value or a thrown AssemblerError.                   *)
(***************************************************************************)
Ok(v) == [ok |-> TRUE, value |-> v]

Throw(name, token) == [ok |-> FALSE, error |-> [name |-> name, token |-> token]]

NoError == [name |-> "none", token |-> NoToken]

(***************************************************************************)
(* Nodes.  An optional label is a sequence of zero or one Label; an        *)
(* operand value is defined or not, and holds the byte(s) of a number or   *)
(* of an array of numbers.                                                 *)
(***************************************************************************)
createLabel(token) == [identifier |-> token.value, range |-> token.range]

createInstruction(token) ==
  [mnemonic |-> token.value, opcode |-> "null", range |-> token.range]

OperandValue(type, token) ==
  CASE type \in {"Number", "Address"} ->
         [defined |-> TRUE, bytes |-> <<hexToDec(token.value)>>]
    [] type \in {"Register", "RegisterAddress"} ->
         [defined |-> TRUE, bytes |-> <<GeneralPurposeRegister(token.value)>>]
    [] type = "String" ->
         [defined |-> TRUE, bytes |-> stringToAscii(token.value)]
    [] type = "Label" ->
         [defined |-> FALSE, bytes |-> <<>>]

createOperand(type, token) ==
  [type |-> type, value |-> OperandValue(type, token),
   rawValue |-> token.value, raw |-> token.raw, range |-> token.range]

RECURSIVE OperandBytesOfTruthy(_)
\* `operand.value ? .. : ..` for `operand.value === undefined ? .. : ..`: a
\* value of 0 is dropped with the undefined ones
OperandBytesOfTruthy(operands) ==
  IF operands = <<>> THEN <<>>
  ELSE LET operand == operands[Len(operands)]
           operandValues == OperandBytesOfTruthy(SubSeq(operands, 1, Len(operands) - 1))
       IN  IF ~operand.value.defined \/ operand.value.bytes = <<0>> THEN operandValues
           ELSE operandValues \o operand.value.bytes

RECURSIVE OperandBytes(_)
\* operands.reduce: the values of the operands whose value is not undefined
OperandBytes(operands) ==
  IF operands = <<>> THEN <<>>
  ELSE LET operand == operands[Len(operands)]
           operandValues == OperandBytes(SubSeq(operands, 1, Len(operands) - 1))
       IN  IF ~operand.value.defined THEN operandValues
           ELSE operandValues \o operand.value.bytes

MachineCode(instruction, operands) ==
  (IF instruction.opcode = "null" THEN <<>> ELSE <<instruction.opcode>>)
    \o OperandBytes(operands)

\* the range starts at the label when there is one
StatementRangeFromLabel(label, instruction, operands) ==
  LET from == IF label # <<>> THEN label[1].range.from ELSE instruction.range.from
      lastNode == IF Len(operands) > 0 THEN operands[Len(operands)] ELSE instruction
  IN  [from |-> from, to |-> lastNode.range.to]

StatementRange(label, instruction, operands) ==
  LET from == instruction.range.from
      lastNode == IF Len(operands) > 0 THEN operands[Len(operands)] ELSE instruction
  IN  [from |-> from, to |-> lastNode.range.to]

createStatement(label, instruction, operands) ==
  [label |-> label, instruction |-> instruction, operands |-> operands,
   machineCode |-> MachineCode(instruction, operands),
   range |-> StatementRange(label, instruction, operands)]

(***************************************************************************)
(* parser.ts: labels and numbers.                                          *)
(***************************************************************************)
\* LABEL_REGEXP with digits let in: /^[\dA-Z_]+$/
validateLabelAllowingDigits(token) ==
  IF ~(Len(token.value) >= 1 /\ \A i \in 1..Len(token.value) :
         token.value[i] \in UpperLetters \cup DecimalDigits \cup {"_"})
  THEN Throw("InvalidLabelError", token)
  ELSE Ok(token)

validateLabel(token) ==
  IF ~LABEL_REGEXP(token.value) THEN Throw("InvalidLabelError", token)
  ELSE Ok(token)

\* tokens[index] of a 0-based index
At(toks, i) == toks[i + 1]

parseLabel(toks, i) ==
  IF ~(i + 1 < Len(toks) /\ At(toks, i + 1).type = "Colon") THEN Ok(<<>>)
  ELSE LET token == validateLabel(At(toks, i))
       IN  IF token.ok THEN Ok(<<createLabel(token.value)>>) ELSE token

\* an off-by-one bound: 0x100 passes
validateNumberOffByOne(token) ==
  IF hexToDec(token.value) > 256 THEN Throw("InvalidNumberError", token)
  ELSE Ok(token)

validateNumber(token) ==
  IF hexToDec(token.value) > 255 THEN Throw("InvalidNumberError", token)
  ELSE Ok(token)

\* createOperand(type, validateNumber(token)) and createOperand(type, validateLabel(token))
createValidated(type, validated) ==
  IF validated.ok THEN Ok(createOperand(type, validated.value)) ELSE validated

(***************************************************************************)
(* parser.ts: operands.  expectedTypes is the set of the expected types.   *)
(***************************************************************************)
parseAddress(token) ==
  IF NUMBER_REGEXP(token.value)
  THEN createValidated("Address", validateNumber(token))
  ELSE IF REGISTER_REGEXP(token.value)
  THEN Ok(createOperand("RegisterAddress", token))
  ELSE Throw("AddressError", token)

parseUnknown(token, expectedTypes) ==
  CASE startsWith(token.raw, "[") -> Throw("UnterminatedAddressError", token)
    [] startsWith(token.raw, "'") -> Throw("SingleQuoteError", token)
    [] startsWith(token.raw, "\"") -> Throw("UnterminatedStringError", token)
    [] OTHER ->
         IF "Number" \in expectedTypes /\ NUMBER_REGEXP(token.value)
         THEN createValidated("Number", validateNumber(token))
         ELSE IF "Label" \in expectedTypes
         THEN createValidated("Label", validateLabel(token))
         ELSE Throw("OperandTypeError", token)

parseSingleOperand(toks, i, expectedTypes) ==
  IF i >= Len(toks) THEN Throw("MissingEndError", NoToken)
  ELSE
    LET token == At(toks, i)
        isExpected(type) == type \in expectedTypes
    IN  CASE token.type = "Digits" /\ isExpected("Number") ->
               createValidated("Number", validateNumber(token))
          [] token.type = "Register" /\ isExpected("Register") ->
               Ok(createOperand("Register", token))
          [] token.type = "Address" /\ isExpected("Address") ->
               parseAddress(token)
          [] token.type = "String" /\ isExpected("String") ->
               Ok(createOperand("String", token))
          [] token.type = "Unknown" ->
               parseUnknown(token, expectedTypes)
          [] OTHER -> Throw("OperandTypeError", token)

\* any punctuation token passes for the comma
checkCommaOrColon(toks, i) ==
  IF i >= Len(toks) THEN Throw("MissingEndError", NoToken)
  ELSE IF At(toks, i).type \notin {"Comma", "Colon"}
  THEN Throw("MissingCommaError", At(toks, i))
  ELSE Ok(<<>>)

checkComma(toks, i) ==
  IF i >= Len(toks) THEN Throw("MissingEndError", NoToken)
  ELSE IF At(toks, i).type # "Comma" THEN Throw("MissingCommaError", At(toks, i))
  ELSE Ok(<<>>)

\* the types of the second operand that go with the type of the first
secondOperandTypes(expectedTypes, firstOperand) ==
  {pair[2] : pair \in {p \in expectedTypes : p[1] = firstOperand.type}}

parseDoubleOperands(toks, i, expectedTypes) ==
  LET firstOperandTypes == {pair[1] : pair \in expectedTypes}
      firstOperand == parseSingleOperand(toks, i, firstOperandTypes)
  IN  IF ~firstOperand.ok THEN firstOperand
      ELSE
        LET comma == checkComma(toks, i + 1)
        IN  IF ~comma.ok THEN comma
            ELSE
              LET secondOperand ==
                    parseSingleOperand(toks, i + 2,
                      secondOperandTypes(expectedTypes, firstOperand.value))
              IN  IF ~secondOperand.ok THEN secondOperand
                  ELSE Ok(<<firstOperand.value, secondOperand.value>>)

(***************************************************************************)
(* parser.ts: parseStatement.  The switch over the mnemonic is the four    *)
(* tables below: the opcode and the expected type(s) of each mnemonic.     *)
(***************************************************************************)
\* case 0: Opcode[mnemonic]
NoOperandOpcode(mnemonic) ==
  CASE mnemonic = END -> "END"

\* case 1: setOpcode(..), "null" where the case sets none
SingleOperandOpcode(mnemonic) ==
  CASE mnemonic = INC -> "INC_REG" [] mnemonic = DEC -> "DEC_REG"
    [] mnemonic = NOT -> "NOT_REG" [] mnemonic = ROL -> "ROL_REG"
    [] mnemonic = ROR -> "ROR_REG" [] mnemonic = SHL -> "SHL_REG"
    [] mnemonic = SHR -> "SHR_REG" [] mnemonic = JMP -> "JMP"
    [] mnemonic = JZ -> "JZ" [] mnemonic = JNZ -> "JNZ"
    [] mnemonic = JS -> "JS" [] mnemonic = JNS -> "JNS"
    [] mnemonic = JO -> "JO" [] mnemonic = JNO -> "JNO"
    [] mnemonic = PUSH -> "PUSH_FROM_REG" [] mnemonic = POP -> "POP_TO_REG"
    [] mnemonic = CALL -> "CALL_ADDR" [] mnemonic = INT -> "INT_ADDR"
    [] mnemonic = IN_ -> "IN_FROM_PORT_TO_AL"
    [] mnemonic = OUT -> "OUT_FROM_AL_TO_PORT"
    [] mnemonic \in {ORG, DB} -> "null"

\* case 1: parseOperand(..)
SingleOperandTypes(mnemonic) ==
  CASE mnemonic \in {INC, DEC, NOT, ROL, ROR, SHL, SHR, PUSH, POP} -> {"Register"}
    [] mnemonic \in {JMP, JZ, JNZ, JS, JNS, JO, JNO} -> {"Label"}
    [] mnemonic \in {CALL, INT, IN_, OUT, ORG} -> {"Number"}
    [] mnemonic = DB -> {"Number", "String"}

\* case 2: parseOperands(..)
DoubleOperandTypes(mnemonic) ==
  CASE mnemonic \in {ADD, SUB, MUL, DIV, MOD, AND, OR, XOR} ->
         {<<"Register", "Register">>, <<"Register", "Number">>}
    [] mnemonic = MOV ->
         {<<"Register", "Number">>, <<"Register", "Address">>,
          <<"Address", "Register">>, <<"Register", "RegisterAddress">>,
          <<"RegisterAddress", "Register">>}
    [] mnemonic = CMP ->
         {<<"Register", "Register">>, <<"Register", "Number">>,
          <<"Register", "Address">>}

\* the two cases of the switch exchanged
ArithmeticOpcodeSwapped(mnemonic, secondType) ==
  CASE secondType = "Number" ->
         (CASE mnemonic = ADD -> "ADD_REG_TO_REG" [] mnemonic = SUB -> "SUB_REG_FROM_REG"
            [] mnemonic = MUL -> "MUL_REG_BY_REG" [] mnemonic = DIV -> "DIV_REG_BY_REG"
            [] mnemonic = MOD -> "MOD_REG_BY_REG" [] mnemonic = AND -> "AND_REG_WITH_REG"
            [] mnemonic = OR -> "OR_REG_WITH_REG" [] mnemonic = XOR -> "XOR_REG_WITH_REG")
    [] secondType = "Register" ->
         (CASE mnemonic = ADD -> "ADD_NUM_TO_REG" [] mnemonic = SUB -> "SUB_NUM_FROM_REG"
            [] mnemonic = MUL -> "MUL_REG_BY_NUM" [] mnemonic = DIV -> "DIV_REG_BY_NUM"
            [] mnemonic = MOD -> "MOD_REG_BY_NUM" [] mnemonic = AND -> "AND_REG_WITH_NUM"
            [] mnemonic = OR -> "OR_REG_WITH_NUM" [] mnemonic = XOR -> "XOR_REG_WITH_NUM")
    [] OTHER -> "null"

\* case 2: switch (secondOperand.type), for the eight arithmetic mnemonics
ArithmeticOpcode(mnemonic, secondType) ==
  CASE secondType = "Register" ->
         (CASE mnemonic = ADD -> "ADD_REG_TO_REG" [] mnemonic = SUB -> "SUB_REG_FROM_REG"
            [] mnemonic = MUL -> "MUL_REG_BY_REG" [] mnemonic = DIV -> "DIV_REG_BY_REG"
            [] mnemonic = MOD -> "MOD_REG_BY_REG" [] mnemonic = AND -> "AND_REG_WITH_REG"
            [] mnemonic = OR -> "OR_REG_WITH_REG" [] mnemonic = XOR -> "XOR_REG_WITH_REG")
    [] secondType = "Number" ->
         (CASE mnemonic = ADD -> "ADD_NUM_TO_REG" [] mnemonic = SUB -> "SUB_NUM_FROM_REG"
            [] mnemonic = MUL -> "MUL_REG_BY_NUM" [] mnemonic = DIV -> "DIV_REG_BY_NUM"
            [] mnemonic = MOD -> "MOD_REG_BY_NUM" [] mnemonic = AND -> "AND_REG_WITH_NUM"
            [] mnemonic = OR -> "OR_REG_WITH_NUM" [] mnemonic = XOR -> "XOR_REG_WITH_NUM")
    [] OTHER -> "null"

\* the Address case sets the opcode of the RegisterAddress case
MovOpcodeAddressAsRegisterAddress(firstType, secondType) ==
  CASE firstType = "Register" ->
         (CASE secondType = "Number" -> "MOV_NUM_TO_REG"
            [] secondType = "Address" -> "MOV_ADDR_TO_REG"
            [] secondType = "RegisterAddress" -> "MOV_REG_ADDR_TO_REG"
            [] OTHER -> "null")
    [] firstType = "Address" -> "MOV_REG_TO_REG_ADDR"
    [] firstType = "RegisterAddress" -> "MOV_REG_TO_REG_ADDR"
    [] OTHER -> "null"

\* case Mnemonic.MOV: switch (firstOperand.type)
MovOpcode(firstType, secondType) ==
  CASE firstType = "Register" ->
         (CASE secondType = "Number" -> "MOV_NUM_TO_REG"
            [] secondType = "Address" -> "MOV_ADDR_TO_REG"
            [] secondType = "RegisterAddress" -> "MOV_REG_ADDR_TO_REG"
            [] OTHER -> "null")
    [] firstType = "Address" -> "MOV_REG_TO_ADDR"
    [] firstType = "RegisterAddress" -> "MOV_REG_TO_REG_ADDR"
    [] OTHER -> "null"

\* case Mnemonic.CMP: switch (secondOperand.type)
CmpOpcode(secondType) ==
  CASE secondType = "Register" -> "CMP_REG_WITH_REG"
    [] secondType = "Number" -> "CMP_REG_WITH_NUM"
    [] secondType = "Address" -> "CMP_REG_WITH_ADDR"
    [] OTHER -> "null"

DoubleOperandOpcode(mnemonic, firstType, secondType) ==
  CASE mnemonic = MOV -> MovOpcode(firstType, secondType)
    [] mnemonic = CMP -> CmpOpcode(secondType)
    [] OTHER -> ArithmeticOpcode(mnemonic, secondType)

setOpcode(instruction, opcode) ==
  [mnemonic |-> instruction.mnemonic, opcode |-> opcode, range |-> instruction.range]

\* the result is <<statement, consumedTokensCount>>
parseOperandsOf(toks, i, labelled, token, consumed) ==
  LET instruction == createInstruction(token)
      mnemonic == token.value
      operandsCount == MnemonicToOperandsCountMap(mnemonic)
  IN  CASE operandsCount = 0 ->
             Ok(<<createStatement(labelled,
                    setOpcode(instruction, NoOperandOpcode(mnemonic)), <<>>),
                  consumed>>)
        [] operandsCount = 1 ->
             LET operand == parseSingleOperand(toks, i, SingleOperandTypes(mnemonic))
             IN  IF ~operand.ok THEN operand
                 ELSE Ok(<<createStatement(labelled,
                             setOpcode(instruction, SingleOperandOpcode(mnemonic)),
                             <<operand.value>>),
                           consumed + 1>>)
        [] operandsCount = 2 ->
             LET operands == parseDoubleOperands(toks, i, DoubleOperandTypes(mnemonic))
             IN  IF ~operands.ok THEN operands
                 ELSE Ok(<<createStatement(labelled,
                             setOpcode(instruction,
                               DoubleOperandOpcode(mnemonic,
                                 operands.value[1].type, operands.value[2].type)),
                             operands.value),
                           consumed + 3>>)

parseStatement(toks, i) ==
  LET label == parseLabel(toks, i)
  IN  IF ~label.ok THEN label
      ELSE
        LET hasLabel == label.value # <<>>
            consumed == IF hasLabel THEN 2 ELSE 0
        IN  IF i + consumed >= Len(toks) THEN Throw("MissingEndError", NoToken)
            ELSE
              LET token == At(toks, i + consumed)
              IN  IF token.type # "Unknown" \/ token.value \notin Mnemonic
                  THEN Throw("StatementError", token)
                  ELSE parseOperandsOf(toks, i + consumed + 1, label.value, token,
                                       consumed + 1)

(***************************************************************************)
(* The input.  parse reads its tokens from left to right and never reads   *)
(* a token again once a statement has consumed it, so the model fixes the  *)
(* input one position at a time, when the next step of parse reads past    *)
(* what is fixed: a further token, or the end of the input.                *)
(***************************************************************************)
PositionOf(toks, token) == CHOOSE i \in 0..(Len(toks) - 1) : At(toks, i) = token

Max(a, b) == IF a >= b THEN a ELSE b

\* the number of leading tokens the next step of parse reads
Reads(toks, i) ==
  IF i >= Len(toks) THEN Len(toks) + 1
  ELSE
    LET result == parseStatement(toks, i)
    IN  IF result.ok THEN Max(i + 2, i + result.value[2])
        ELSE IF result.error.name = "MissingEndError" THEN Len(toks) + 1
        ELSE Max(i + 2, PositionOf(toks, result.error.token) + 1)

NeedsInput == ~ended /\ Reads(tokens, index) > Len(tokens)

(***************************************************************************)
(* The store and the Controller as they are constructed.  A value that     *)
(* may be undefined or null in the source is a sequence of no or one       *)
(* element, an id 0 when it is a timer id, or one of the strings           *)
(* "undefined" and "null" beside the strings of its other values.          *)
(***************************************************************************)
\* the assembled program: a labelled statement of two bytes at address 0,
\* whose label stands on the line before it, and a statement of one byte
\* at address 2
addressToStatementMap ==
  (0 :> [label |-> <<[identifier |-> <<"L">>, range |-> [from |-> 0, to |-> 1]]>>,
         range |-> [from |-> 3, to |-> 9],
         machineCode |-> <<1, 0>>])
  @@
  (2 :> [label |-> <<>>,
         range |-> [from |-> 10, to |-> 13],
         machineCode |-> <<0>>])

\* the lines of the source of the assembled program
Lines ==
  { [number |-> 1, from |-> 0, to |-> 2],
    [number |-> 2, from |-> 3, to |-> 9],
    [number |-> 3, from |-> 10, to |-> 13] }

\* the lines on which the editor sets and removes a breakpoint: the line of
\* the label of the first statement and the line of the second statement
BreakpointLines == {lineLoc \in Lines : lineLoc.number \in {1, 3}}

\* the status register holds the set of its flags
initRegisters == [ip |-> 0, sr |-> {}]

\* memory and registers; n tells apart the objects different engine
\* invocations return (0: the state the store is loaded or reset with)
initialMachine ==
  [n |-> 0, memoryData |-> <<1, 0, 0>>, cpuRegisters |-> initRegisters]

initialCpuState == [status |-> [fault |-> "null", halted |-> "false"]]

initialIoState ==
  [inputSignals |-> [data |-> [content |-> "null"], interrupt |-> FALSE],
   isWaitingForInput |-> FALSE]

initialState ==
  [isRunning |-> FALSE,
   isSuspended |-> FALSE,
   cpu |-> initialCpuState,
   machine |-> initialMachine,
   io |-> initialIoState,
   breakpoints |-> {},
   activeRange |-> <<>>,
   unexpectedError |-> FALSE,
   addressToStatementMap |-> addressToStatementMap]

\* what the engine is given to run and what the user does meanwhile: a
\* program that reads the keyboard and sets and clears the interrupt flag, a
\* program that writes to the memory and to the display, a program that the
\* user debugs with breakpoints, and a program that is stepped by a caller
\* who calls step again before the call before has gone on
Scenarios ==
  { [program |-> "keyboard", debugging |-> FALSE, overlapping |-> FALSE],
    [program |-> "display", debugging |-> FALSE, overlapping |-> FALSE],
    [program |-> "plain", debugging |-> TRUE, overlapping |-> FALSE],
    [program |-> "plain", debugging |-> FALSE, overlapping |-> TRUE] }

\* parse runs before a program is loaded
Unloaded == [program |-> "none", debugging |-> FALSE, overlapping |-> FALSE]

\* history: the engine invocations that return in a scenario
StepsOf(s) == IF s.debugging THEN MaxDebugSteps ELSE MaxSteps

\* Promise.resolve(undefined): lastStep is always a settled promise, so it
\* is the sequence of no or one StepResult it resolved with
Resolved == <<>>

Controller ==
  [stepIntervalId |-> 0,
   interruptIntervalId |-> 0,
   isInterruptIntervalSet |-> FALSE,
   lastStep |-> Resolved,
   dispatchChangesTimeoutId |-> 0,
   unsubscribeSetSuspended |-> 0,
   lastBreakpointLineNumber |-> 0]

Init ==
  /\ tokens = <<>>
  /\ ended = FALSE
  /\ index = 0
  /\ statements = <<>>
  /\ status = "parsing"
  /\ error = NoError
  /\ returned = <<>>
  /\ store = initialState
  /\ controller = Controller
  /\ intervals = {}
  /\ timeouts = <<>>
  /\ listeners = {}
  /\ microtasks = <<>>
  /\ scenario = Unloaded
  /\ invocations = <<>>
  /\ stepCount = 0

Tokenize ==
  /\ status = "parsing"
  /\ NeedsInput
  /\ Len(tokens) < MaxTokens
  /\ \E t \in TokenAlphabet : tokens' = Append(tokens, Placed(t, tokens))
  /\ UNCHANGED <<ended, index, statements, status, error, returned>>
  /\ UNCHANGED controllerVars

EndOfInput ==
  /\ status = "parsing"
  /\ NeedsInput
  /\ ended' = TRUE
  /\ UNCHANGED <<tokens, index, statements, status, error, returned>>
  /\ UNCHANGED controllerVars

(***************************************************************************)
(* parse: one iteration of the loop, and the end of the loop.              *)
(***************************************************************************)
\* the loop of a parser that hands over what it parsed before the error
ParseLoopReturningParsed ==
  /\ status = "parsing"
  /\ ~NeedsInput
  /\ index < Len(tokens)
  /\ LET result == parseStatement(tokens, index)
     IN  IF result.ok
         THEN /\ statements' = Append(statements, result.value[1])
              /\ index' = index + result.value[2]
              /\ UNCHANGED <<status, error, returned>>
         ELSE /\ status' = "thrown"
              /\ error' = result.error
              /\ returned' = statements
              /\ UNCHANGED <<statements, index>>
  /\ UNCHANGED <<tokens, ended>>
  /\ UNCHANGED controllerVars

ParseLoop ==
  /\ status = "parsing"
  /\ ~NeedsInput
  /\ index < Len(tokens)
  /\ LET result == parseStatement(tokens, index)
     IN  IF result.ok
         THEN /\ statements' = Append(statements, result.value[1])
              /\ index' = index + result.value[2]
              /\ UNCHANGED <<status, error, returned>>
         ELSE /\ status' = "thrown"
              /\ error' = result.error
              /\ UNCHANGED <<statements, index, returned>>
  /\ UNCHANGED <<tokens, ended>>
  /\ UNCHANGED controllerVars

\* the test looks at the first statement
missingEndOfFirst(stmts) ==
  Len(stmts) > 0 /\ stmts[1].instruction.mnemonic # END

\* the test of the missing END
missingEnd(stmts) ==
  Len(stmts) > 0 /\ stmts[Len(stmts)].instruction.mnemonic # END

ParseEnd ==
  /\ status = "parsing"
  /\ ~NeedsInput
  /\ index >= Len(tokens)
  /\ IF missingEnd(statements)
     THEN /\ status' = "thrown"
          /\ error' = [name |-> "MissingEndError", token |-> NoToken]
          /\ UNCHANGED returned
     ELSE /\ status' = "returned"
          /\ returned' = statements
          /\ UNCHANGED error
  /\ UNCHANGED <<tokens, ended, index, statements>>
  /\ UNCHANGED controllerVars

Next ==
  \/ Tokenize
  \/ EndOfInput
  \/ ParseLoop
  \/ ParseEnd

Spec == Init /\ [][Next]_vars

(***************************************************************************)
(* The Controller.  A method is an operator from and to a record m of      *)
(* what it can touch: the store, the fields of the Controller, the timers  *)
(* of the window, the registered listeners and the queue of step calls     *)
(* that await lastStep.  Left out are the parts of the store that only     *)
(* the views read and no method of the Controller reads back: the editor   *)
(* message, the data of the output devices and of the display.             *)
(***************************************************************************)
Everything ==
  [store |-> store, controller |-> controller, intervals |-> intervals,
   timeouts |-> timeouts, listeners |-> listeners, microtasks |-> microtasks]

\* an id no timer in use has: the window never hands out an id twice
FreshId(used) ==
  CHOOSE id \in 1..(Cardinality(used) + 1) :
    id \notin used /\ \A smaller \in 1..(id - 1) : smaller \in used

\* the first byte of the display in memory
VDU_START_ADDRESS == 192

\* a value of an if condition that counts as true
Truthy(value) == value = "true"

getFlagFrom(sr, flag) == flag \in sr

lineRangesOverlap(a, b) == a.from < b.to /\ b.from < a.to

\* reducers of the store
setRunning(m, isRunning) == [m EXCEPT !.store.isRunning = isRunning]

setCpuFault(m, runtimeError) == [m EXCEPT !.store.cpu.status.fault = runtimeError]

\* setHalted stores the payload of the action
setCpuHalted(m, payload) == [m EXCEPT !.store.cpu.status.halted = payload]

setInterrupt(m, interrupt) ==
  [m EXCEPT !.store.io.inputSignals.interrupt = interrupt]

setWaitingForInput(m, isWaiting) ==
  [m EXCEPT !.store.io.isWaitingForInput = isWaiting]

clearInputData(m) == [m EXCEPT !.store.io.inputSignals.data.content = "null"]

setUnexpectedError(m) == [m EXCEPT !.store.unexpectedError = TRUE]

\* step, up to its await: the call waits for the promise that lastStep holds
\* now, and goes on in a microtask with the value of that promise
step(m) == [m EXCEPT !.microtasks = Append(@, m.controller.lastStep)]

clearStepInterval(m) ==
  [m EXCEPT !.intervals = {timer \in @ : timer.id # m.controller.stepIntervalId}]

clearInterruptInterval(m) ==
  [m EXCEPT !.intervals =
     {timer \in @ : timer.id # m.controller.interruptIntervalId}]

IntervalIds(m) ==
  {timer.id : timer \in m.intervals}
    \cup {m.controller.stepIntervalId, m.controller.interruptIntervalId}

setStepInterval(m) ==
  LET id == FreshId(IntervalIds(m))
  IN  [m EXCEPT !.intervals = @ \cup {[id |-> id, callback |-> "step"]},
                !.controller.stepIntervalId = id]

setInterruptInterval(m) ==
  LET id == FreshId(IntervalIds(m))
  IN  [m EXCEPT !.intervals = @ \cup {[id |-> id, callback |-> "setInterrupt"]},
                !.controller.interruptIntervalId = id]

stop(m) ==
  LET cleared == clearStepInterval(m)
  IN  setRunning(
        IF cleared.controller.isInterruptIntervalSet
        THEN [clearInterruptInterval(cleared)
                EXCEPT !.controller.isInterruptIntervalSet = FALSE]
        ELSE cleared,
        FALSE)

stopIfRunning(m, state) == IF state.isRunning THEN stop(m) ELSE m

cancelMainLoop(m) ==
  LET cleared == clearStepInterval(m)
  IN  IF cleared.controller.isInterruptIntervalSet
      THEN clearInterruptInterval(cleared)
      ELSE cleared

resumeMainLoop(m) ==
  LET resumed == setStepInterval(m)
  IN  IF resumed.controller.isInterruptIntervalSet
      THEN setInterruptInterval(resumed)
      ELSE resumed

\* the listener step registers: async () => { if (isRunning) resumeMainLoop();
\* await this.step() }
resume(m, listener) ==
  step(IF listener.isRunning THEN resumeMainLoop(m) ELSE m)

\* dispatch(setSuspended(..)): the reducer, then every registered listener,
\* each of them once
RECURSIVE runListeners(_, _)
runListeners(m, registered) ==
  IF registered = {} THEN m
  ELSE
    LET listener == CHOOSE l \in registered :
                      \A other \in registered : l.id <= other.id
    IN  runListeners(resume(m, listener), registered \ {listener})

setSuspended(m, isSuspended) ==
  runListeners([m EXCEPT !.store.isSuspended = isSuspended, !.listeners = {}],
               m.listeners)

unsubscribeSetSuspended(m) ==
  [m EXCEPT !.listeners =
     {l \in @ : l.id # m.controller.unsubscribeSetSuspended}]

\* restoreIfSuspended that leaves the listener subscribed
restoreIfSuspendedKeepingListener(m, state) ==
  IF state.isSuspended THEN setSuspended(m, FALSE) ELSE m

restoreIfSuspended(m, state) ==
  IF state.isSuspended
  THEN setSuspended(unsubscribeSetSuspended(m), FALSE)
  ELSE m

run(m) == step(setStepInterval(setRunning(m, TRUE)))

runOrStop(m) == IF m.store.isRunning THEN stopIfRunning(m, m.store) ELSE run(m)

stopAndRun(m) == step(resumeMainLoop(cancelMainLoop(m)))

cancelDispatchChanges(m) ==
  IF m.controller.dispatchChangesTimeoutId # 0
  THEN [m EXCEPT
          !.timeouts = SelectSeq(@, LAMBDA timeout :
                         timeout.id # m.controller.dispatchChangesTimeoutId),
          !.controller.dispatchChangesTimeoutId = 0]
  ELSE m

resetBreakpointLineNumber(m) ==
  [m EXCEPT !.controller.lastBreakpointLineNumber = 0]

resetLastStep(m) == [m EXCEPT !.controller.lastStep = Resolved]

fullyStop(m) ==
  LET state == m.store
  IN  resetLastStep(
        resetBreakpointLineNumber(
          restoreIfSuspended(
            cancelDispatchChanges(stopIfRunning(m, state)), state)))

\* the memory the store is reset to
resetMachine ==
  [n |-> 0, memoryData |-> <<0, 0, 0>>, cpuRegisters |-> initRegisters]

reset(m) ==
  [fullyStop(m) EXCEPT
     !.store.machine = resetMachine,
     !.store.cpu = initialCpuState,
     !.store.addressToStatementMap = <<>>,
     !.store.activeRange = <<>>,
     !.store.io = initialIoState]

(***************************************************************************)
(* The execution engine (step of features/cpu/core), as the Controller     *)
(* sees it: a call throws a RuntimeError or another error, or returns new  *)
(* memory and registers with the signals and the changes of the step.      *)
(* The engine reports interruptFlagSet when the step changed the           *)
(* interrupt flag; a step that halts or that requires input leaves memory  *)
(* and registers as they were.  What else a step can do is up to the       *)
(* program that is loaded.                                                 *)
(***************************************************************************)
\* what a step can leave in memory and in the instruction pointer: the
\* first statement at ip, the first statement at ip with a byte overwritten,
\* an ip that no statement is mapped at, the second statement at ip
Images ==
  { [memoryData |-> <<1, 0, 0>>, ip |-> 0],
    [memoryData |-> <<1, 1, 0>>, ip |-> 0],
    [memoryData |-> <<1, 0, 0>>, ip |-> 1],
    [memoryData |-> <<1, 0, 0>>, ip |-> 2] }

\* changes.memoryData: undefined, a byte of the program, a byte of the display
Changes == {<<>>, <<[address |-> 0]>>, <<[address |-> VDU_START_ADDRESS]>>}

StepOutput(memoryData, cpuRegisters, inputSignals, output, changes) ==
  [thrown |-> "none",
   memoryData |-> memoryData,
   cpuRegisters |-> cpuRegisters,
   signals |-> [input |-> inputSignals, output |-> output],
   changes |-> [memoryData |-> changes]]

Thrown(name, input, inputSignals) ==
  [StepOutput(input.memoryData, input.cpuRegisters, inputSignals,
              [halted |-> FALSE, requiredInputPort |-> "undefined",
               interruptFlagSet |-> "undefined"], <<>>)
     EXCEPT !.thrown = name]

__step(program, input, inputSignals) ==
  LET sr == input.cpuRegisters.sr
      toggled == IF getFlagFrom(sr, "Interrupt") THEN "false" ELSE "true"
      srAfter(interruptFlagSet) ==
        CASE interruptFlagSet = "true" -> sr \cup {"Interrupt"}
          [] interruptFlagSet = "false" -> sr \ {"Interrupt"}
          [] OTHER -> sr
      same(output) ==
        StepOutput(input.memoryData, input.cpuRegisters, inputSignals, output, <<>>)
      executed(memoryData, ip, interruptFlagSet, changes) ==
        StepOutput(memoryData, [ip |-> ip, sr |-> srAfter(interruptFlagSet)],
                   inputSignals,
                   [halted |-> FALSE, requiredInputPort |-> "undefined",
                    interruptFlagSet |-> interruptFlagSet],
                   changes)
  IN  { Thrown("RuntimeError", input, inputSignals),
        Thrown("Error", input, inputSignals),
        same([halted |-> TRUE, requiredInputPort |-> "undefined",
              interruptFlagSet |-> "undefined"]) }
      \cup
      CASE program = "keyboard" ->
             { same([halted |-> FALSE, requiredInputPort |-> "SimulatedKeyboard",
                     interruptFlagSet |-> "undefined"]) }
             \cup
             { executed(input.memoryData, input.cpuRegisters.ip, interruptFlagSet,
                        <<>>) :
                 interruptFlagSet \in {"undefined", toggled} }
        [] program = "display" ->
             { executed(image.memoryData, image.ip, "undefined", changes) :
                 image \in Images, changes \in Changes }
        [] OTHER ->
             { executed(image.memoryData, image.ip, "undefined", <<>>) :
                 image \in Images }

(***************************************************************************)
(* step, from its await on: one microtask.                                 *)
(***************************************************************************)
\* addressToStatementMap[instructionAdress]
statementAt(state, instructionAdress) ==
  IF instructionAdress \in DOMAIN state.addressToStatementMap
  THEN <<state.addressToStatementMap[instructionAdress]>>
  ELSE <<>>

\* memoryData[address], undefined past the end of the memory
byteAt(memoryData, address) ==
  IF address + 1 \in DOMAIN memoryData THEN <<memoryData[address + 1]>> ELSE <<>>

\* hasStatement looking at the first byte only
hasStatementFirstByte(statement, memoryData, instructionAdress) ==
  /\ statement # <<>>
  /\ Len(statement[1].machineCode) > 0 =>
       <<statement[1].machineCode[1]>> = byteAt(memoryData, instructionAdress)

hasStatement(statement, memoryData, instructionAdress) ==
  /\ statement # <<>>
  /\ \A k \in 1..Len(statement[1].machineCode) :
       <<statement[1].machineCode[k]>> = byteAt(memoryData, instructionAdress + k - 1)

\* window.setTimeout(() => { .. }): the callback keeps the memory, the
\* registers, the map and the statement of the step that scheduled it
dispatchChanges(m, result, isVduBufferChanged, map, statement, matches) ==
  LET id == FreshId({timeout.id : timeout \in
                       {m.timeouts[k] : k \in 1..Len(m.timeouts)}}
                    \cup {m.controller.dispatchChangesTimeoutId})
  IN  [m EXCEPT
         !.timeouts = Append(@, [id |-> id, result |-> result,
                                 isVduBufferChanged |-> isVduBufferChanged,
                                 hasStatement |-> matches,
                                 addressToStatementMap |-> map,
                                 statement |-> statement]),
         !.controller.dispatchChangesTimeoutId = id]

\* the callback of dispatchChanges
dispatchChangesCallback(m, timeout) ==
  [m EXCEPT
     !.store.machine = timeout.result,
     !.store.activeRange = IF timeout.hasStatement THEN timeout.statement ELSE <<>>,
     !.controller.dispatchChangesTimeoutId = 0]

\* catch (err)
stepCatch(m, state, thrown) ==
  resetLastStep(
    IF thrown = "RuntimeError"
    THEN setCpuFault(stopIfRunning(m, state), "RuntimeError")
    ELSE setUnexpectedError(stopIfRunning(m, state)))

\* if (requiredInputPort !== undefined) { .. } else if (isWaitingForInput) { .. }
stepInput(m, state, requiredInputPort, inputData, isRunning) ==
  IF requiredInputPort # "undefined"
  THEN
    LET waiting == setWaitingForInput(m, TRUE)
    IN  IF inputData.content = "null"
        THEN
          LET suspended ==
                setSuspended(IF isRunning THEN cancelMainLoop(waiting) ELSE waiting,
                             TRUE)
              id == FreshId({l.id : l \in suspended.listeners}
                            \cup {suspended.controller.unsubscribeSetSuspended})
          IN  [suspended EXCEPT
                 !.listeners = @ \cup {[id |-> id, isRunning |-> isRunning]},
                 !.controller.unsubscribeSetSuspended = id]
        ELSE clearInputData(waiting)
  ELSE IF state.io.isWaitingForInput
  THEN clearInputData(setWaitingForInput(m, FALSE))
  ELSE m

\* the two blocks on interruptFlagSet
stepInterrupt(m, interruptFlagSet, isRunning, cpuRegisters) ==
  LET set(n) == [setInterruptInterval(n) EXCEPT !.controller.isInterruptIntervalSet = TRUE]
      clear(n) == [clearInterruptInterval(n) EXCEPT !.controller.isInterruptIntervalSet = FALSE]
      first == IF interruptFlagSet # "undefined" /\ isRunning
               THEN IF Truthy(interruptFlagSet) THEN set(m) ELSE clear(m)
               ELSE m
  IN  IF ~isRunning THEN first
      ELSE IF interruptFlagSet # "undefined"
      THEN IF Truthy(interruptFlagSet)
           THEN IF ~first.controller.isInterruptIntervalSet THEN set(first) ELSE first
           ELSE IF first.controller.isInterruptIntervalSet THEN clear(first) ELSE first
      ELSE IF getFlagFrom(cpuRegisters.sr, "Interrupt")
                /\ ~first.controller.isInterruptIntervalSet
      THEN set(first)
      ELSE first

\* a statement range that leaves the label out
statementRangeWithLabelOmitted(statement) == statement.range

\* const statementRange = { from: label === null ? .. : label.range.from, to }
statementRange(statement) ==
  [from |-> IF statement.label = <<>>
            THEN statement.range.from
            ELSE statement.label[1].range.from,
   to |-> statement.range.to]

\* the part of step on the breakpoints
stepBreakpoints(m, state, result, isVduBufferChanged, statement, matches, isRunning, willSuspend, willDispatchChanges) ==
  LET breakpoints == {lineLoc \in Lines : lineLoc.number \in state.breakpoints}
      overlapping ==
        {lineLoc \in breakpoints :
           lineRangesOverlap(lineLoc, statementRange(statement[1]))}
      hasBreakpoint ==
        breakpoints # {} /\ matches /\ isRunning /\ ~willSuspend /\ overlapping # {}
      breakpointLineLoc ==
        CHOOSE lineLoc \in overlapping :
          \A other \in overlapping : lineLoc.number <= other.number
      stopped ==
        IF hasBreakpoint
             /\ breakpointLineLoc.number # m.controller.lastBreakpointLineNumber
        THEN [stop(IF ~willDispatchChanges
                   THEN dispatchChanges(m, result, isVduBufferChanged,
                                        state.addressToStatementMap, statement,
                                        matches)
                   ELSE m)
                EXCEPT !.controller.lastBreakpointLineNumber =
                         breakpointLineLoc.number]
        ELSE m
  IN  IF ~hasBreakpoint /\ stopped.controller.lastBreakpointLineNumber # 0
      THEN resetBreakpointLineNumber(stopped)
      ELSE stopped

\* setCpuHalted() is dispatched without an argument: the payload is undefined
NoPayload == "undefined"

\* step after the engine returned stepOutput; n numbers the StepResult
stepTry(m, state, stepOutput, n) ==
  LET memoryData == stepOutput.memoryData
      cpuRegisters == stepOutput.cpuRegisters
      signals == stepOutput.signals
      changes == stepOutput.changes
      result == [n |-> n, memoryData |-> memoryData, cpuRegisters |-> cpuRegisters]
      instructionAdress == cpuRegisters.ip
      statement == statementAt(state, instructionAdress)
      matches == hasStatement(statement, memoryData, instructionAdress)
      isVduBufferChanged ==
        /\ changes.memoryData # <<>>
        /\ changes.memoryData[1].address >= VDU_START_ADDRESS
      willDispatchChanges ==
        m.controller.dispatchChangesTimeoutId = 0 \/ isVduBufferChanged
      dispatched ==
        IF willDispatchChanges
        THEN dispatchChanges(m, result, isVduBufferChanged,
                             state.addressToStatementMap, statement, matches)
        ELSE m
      inputData == signals.input.data
      acknowledged ==
        IF signals.input.interrupt THEN setInterrupt(dispatched, FALSE) ELSE dispatched
      requiredInputPort == signals.output.requiredInputPort
      isRunning == state.isRunning
      willSuspend == requiredInputPort # "undefined" /\ inputData.content = "null"
  IN  IF signals.output.halted
      THEN resetLastStep(setCpuHalted(stopIfRunning(acknowledged, state), NoPayload))
      ELSE
        [stepBreakpoints(
           stepInterrupt(
             stepInput(acknowledged, state, requiredInputPort, inputData, isRunning),
             signals.output.interruptFlagSet, isRunning, cpuRegisters),
           state, result, isVduBufferChanged, statement, matches,
           isRunning, willSuspend, willDispatchChanges)
           EXCEPT !.controller.lastStep = <<result>>]

\* step returns before it calls the engine: the CPU is at fault or halted,
\* or the Controller is suspended
stepReturnsEarly(state) ==
  \/ state.cpu.status.fault # "null"
  \/ Truthy(state.cpu.status.halted)
  \/ state.isSuspended

stepReturn(m, state) ==
  IF state.cpu.status.fault # "null" \/ Truthy(state.cpu.status.halted)
  THEN IF state.cpu.status.fault = "null" /\ Truthy(state.cpu.status.halted)
       THEN setCpuHalted(stopIfRunning(m, state), NoPayload)
       ELSE stopIfRunning(m, state)
  ELSE m

\* step handing the engine the state of the store and not the state lastStep
\* resolved with
stepInputFromStore(state, lastStepResult) == state.machine

\* what step hands to the engine
stepInput_(state, lastStepResult) ==
  IF lastStepResult # <<>> THEN lastStepResult[1] ELSE state.machine

stepAfterAwait(m, state, stepOutput, n) ==
  IF stepOutput.thrown # "none"
  THEN stepCatch(m, state, stepOutput.thrown)
  ELSE stepTry(m, state, stepOutput, n)

(***************************************************************************)
(* The event loop.  A task is a command of the user, a dispatch of the     *)
(* views or a callback of a timer; it runs when no microtask is left.      *)
(* Only step can be called again before the microtasks of the task have    *)
(* run: a caller may call it more than once in a task.                     *)
(***************************************************************************)
Commit(m) ==
  /\ store' = m.store
  /\ controller' = m.controller
  /\ intervals' = m.intervals
  /\ timeouts' = m.timeouts
  /\ listeners' = m.listeners
  /\ microtasks' = m.microtasks
  /\ UNCHANGED <<parserVars, scenario>>

\* history: the breakpoint lines that overlap the statement, label included,
\* that a step left the instruction pointer on; OnStatement tells that the
\* memory it returned holds the machine code of a statement there
BreakpointLinesAt(state, stepOutput) ==
  LET ip == stepOutput.cpuRegisters.ip
      map == state.addressToStatementMap
  IN  IF ip \notin DOMAIN map THEN {}
      ELSE
        LET from == IF map[ip].label = <<>> THEN map[ip].range.from
                    ELSE map[ip].label[1].range.from
        IN  {lineLoc \in Lines :
               /\ lineLoc.number \in state.breakpoints
               /\ lineRangesOverlap(lineLoc, [from |-> from, to |-> map[ip].range.to])}

OnStatement(state, stepOutput) ==
  LET ip == stepOutput.cpuRegisters.ip
      map == state.addressToStatementMap
  IN  /\ ip \in DOMAIN map
      /\ \A k \in DOMAIN map[ip].machineCode :
           /\ ip + k <= Len(stepOutput.memoryData)
           /\ stepOutput.memoryData[ip + k] = map[ip].machineCode[k]

\* history: the breakpoint line the run loop last had to stop on (0: none),
\* forgotten when a step lands on a statement outside every breakpoint line
StoppedOn(before, state, stepOutput, suspends) ==
  LET lines == BreakpointLinesAt(state, stepOutput)
      number == (CHOOSE lineLoc \in lines :
                   \A other \in lines : lineLoc.number <= other.number).number
  IN  IF stepOutput.thrown # "none" \/ stepOutput.signals.output.halted
           \/ ~OnStatement(state, stepOutput)
      THEN before
      ELSE IF lines = {} THEN 0
      ELSE IF state.isRunning /\ ~suspends THEN number
      ELSE before

\* history: the last engine invocation since the last reset.  input and
\* output number the state it was given and the state it returned, data is
\* the input data it was given, fromStore tells that lastStep held nothing
\* and the state was read from the store, returnedState is the state that
\* the last invocation that returned has returned, stoppedOn the breakpoint
\* line the run loop last had to stop on.  resumed
\* counts the step calls that a setSuspended(false) of the views made after
\* it while the Controller was suspended, reset tells that lastStep has been
\* reset after it, previous is the invocation before it
Invocation(input, inputSignals, fromStore, stepOutput, n, suspends, stoppedOn) ==
  [input |-> input.n, data |-> inputSignals.data.content, fromStore |-> fromStore,
   stoppedOn |-> stoppedOn,
   returnedState |->
     IF stepOutput.thrown = "none"
     THEN <<[memoryData |-> stepOutput.memoryData,
             cpuRegisters |-> stepOutput.cpuRegisters]>>
     ELSE IF invocations = <<>> THEN <<>>
     ELSE invocations[1].returnedState,
   outcome |-> IF stepOutput.thrown # "none" THEN stepOutput.thrown
               ELSE IF stepOutput.signals.output.halted THEN "halted"
               ELSE IF suspends THEN "suspended"
               ELSE "returned",
   interruptFlagSet |-> stepOutput.signals.output.interruptFlagSet,
   output |-> IF stepOutput.thrown # "none" THEN 0 ELSE n,
   resumed |-> 0,
   reset |-> FALSE,
   previous |->
     IF invocations = <<>> THEN <<>>
     ELSE <<[outcome |-> invocations[1].outcome, input |-> invocations[1].input,
             output |-> invocations[1].output,
             resumed |-> invocations[1].resumed, reset |-> invocations[1].reset]>>]

Resumed(calls) ==
  IF invocations = <<>> THEN invocations
  ELSE [invocations EXCEPT ![1].resumed = calls]

LastStepReset ==
  IF invocations = <<>> THEN invocations
  ELSE [invocations EXCEPT ![1].reset = TRUE, ![1].stoppedOn = 0,
                           ![1].returnedState = <<>>]

\* history: what a callback scheduled before a reset of the store holds is
\* from before the reset
BeforeReset(pending) ==
  [k \in 1..Len(pending) |-> [pending[k] EXCEPT !.result.n = -1]]

Task == microtasks = <<>>

RunOrStop ==
  /\ Task
  /\ Commit(runOrStop(Everything))
  /\ UNCHANGED <<invocations, stepCount>>

Step ==
  /\ Len(microtasks) < (IF scenario.overlapping THEN MaxPending ELSE 1)
  /\ Commit(step(Everything))
  /\ UNCHANGED <<invocations, stepCount>>

StepIntervalFires ==
  /\ Task
  /\ \E timer \in intervals : timer.callback = "step"
  /\ Commit(step(Everything))
  /\ UNCHANGED <<invocations, stepCount>>

InterruptIntervalFires ==
  /\ Task
  /\ \E timer \in intervals : timer.callback = "setInterrupt"
  /\ Commit(setInterrupt(Everything, TRUE))
  /\ UNCHANGED <<invocations, stepCount>>

StepAfterAwait ==
  /\ microtasks # <<>>
  /\ LET m == [Everything EXCEPT !.microtasks = Tail(@)]
         lastStepResult == Head(microtasks)
         state == store
         input == stepInput_(state, lastStepResult)
         inputSignals == state.io.inputSignals
     IN  IF stepReturnsEarly(state)
         THEN /\ Commit(stepReturn(m, state))
              /\ UNCHANGED <<invocations, stepCount>>
         ELSE \E stepOutput \in __step(scenario.program, input, inputSignals) :
                LET returns == stepOutput.thrown = "none"
                    n == IF returns THEN stepCount + 1 ELSE stepCount
                    after == stepAfterAwait(m, state, stepOutput, n)
                    suspends ==
                      /\ stepOutput.signals.output.requiredInputPort # "undefined"
                      /\ inputSignals.data.content = "null"
                    before == IF invocations = <<>> THEN 0
                              ELSE invocations[1].stoppedOn
                IN  /\ returns => stepCount < StepsOf(scenario)
                    /\ Commit(after)
                    /\ invocations' =
                         <<Invocation(input, inputSignals, lastStepResult = <<>>,
                                      stepOutput, n, suspends,
                                      StoppedOn(before, state, stepOutput,
                                                suspends))>>
                    /\ stepCount' = n

DispatchChangesFires ==
  /\ Task
  /\ timeouts # <<>>
  /\ Commit(dispatchChangesCallback([Everything EXCEPT !.timeouts = Tail(@)],
                                    Head(timeouts)))
  /\ UNCHANGED <<invocations, stepCount>>

\* the keyboard of the views, on a key: dispatch(setInputData(..)) and
\* dispatch(setSuspended(false))
SetSuspended ==
  /\ Task
  /\ store.isSuspended \/ listeners # {}
  /\ LET after == setSuspended(
                    [Everything EXCEPT !.store.io.inputSignals.data.content = "data"],
                    FALSE)
     IN  /\ Commit(after)
         /\ invocations' =
              IF store.isSuspended THEN Resumed(Len(after.microtasks))
              ELSE invocations
  /\ UNCHANGED stepCount

FullyStop ==
  /\ Task
  /\ Commit(fullyStop(Everything))
  /\ invocations' = LastStepReset
  /\ UNCHANGED stepCount

Reset ==
  /\ Task
  /\ Commit([reset(Everything) EXCEPT !.timeouts = BeforeReset(@)])
  /\ invocations' = <<>>
  /\ UNCHANGED stepCount

\* watch(selectRuntimeConfiguration, ..)
RuntimeConfigurationChanges ==
  /\ Task
  /\ ~store.isSuspended /\ store.isRunning
  /\ Commit(stopAndRun(Everything))
  /\ UNCHANGED <<invocations, stepCount>>

\* the editor sets or removes the breakpoint of a line
ToggleBreakpoint ==
  /\ Task
  /\ scenario.debugging
  /\ \E lineLoc \in BreakpointLines :
       Commit([Everything EXCEPT !.store.breakpoints =
                 IF lineLoc.number \in @ THEN @ \ {lineLoc.number}
                 ELSE @ \cup {lineLoc.number}])
  /\ UNCHANGED <<invocations, stepCount>>

ControllerNext ==
  \/ RunOrStop
  \/ StepIntervalFires
  \/ Step
  \/ InterruptIntervalFires
  \/ StepAfterAwait
  \/ DispatchChangesFires
  \/ SetSuspended
  \/ FullyStop
  \/ Reset
  \/ RuntimeConfigurationChanges
  \/ ToggleBreakpoint

ControllerInit ==
  /\ tokens = <<>>
  /\ ended = FALSE
  /\ index = 0
  /\ statements = <<>>
  /\ status = "parsing"
  /\ error = NoError
  /\ returned = <<>>
  /\ store = initialState
  /\ controller = Controller
  /\ intervals = {}
  /\ timeouts = <<>>
  /\ listeners = {}
  /\ microtasks = <<>>
  /\ scenario \in Scenarios
  /\ invocations = <<>>
  /\ stepCount = 0

ControllerSpec == ControllerInit /\ [][ControllerNext]_vars

(***************************************************************************)
(* Properties of parse.                                                    *)
(***************************************************************************)
Returned == {returned[k] : k \in 1..Len(returned)}

Parsed == {statements[k] : k \in 1..Len(statements)}

Operands(st) == {st.operands[k] : k \in 1..Len(st.operands)}

\* the tuple of the operand kinds of a statement
Kinds(st) == [k \in 1..Len(st.operands) |-> st.operands[k].type]

\* the 0-based position in the input of the token of a node
PositionOfRange(range) ==
  CHOOSE i \in 0..(Len(tokens) - 1) : At(tokens, i).range = range

\* the kind tuples parseStatement lists for a mnemonic
ListedKinds(mnemonic) ==
  CASE mnemonic \in MnemonicWithNoOperand -> {<<>>}
    [] mnemonic \in MnemonicWithOneOperand ->
         {<<type>> : type \in SingleOperandTypes(mnemonic)}
    [] mnemonic \in MnemonicWithTwoOperands -> DoubleOperandTypes(mnemonic)

\* C1: every statement parse returns has a tuple of operand kinds that
\* parseStatement lists for its mnemonic.
C1_ReturnedKindsAreListed ==
  \A st \in Returned : Kinds(st) \in ListedKinds(st.instruction.mnemonic)

\* C2: a numeric literal used as a Number operand or inside an Address
\* operand is accepted only if it is hexadecimal and at most 255, and it is
\* rejected as an invalid number only if it is hexadecimal and above 255.
C2_NumberAcceptedIffByte ==
  /\ \A st \in Returned : \A operand \in Operands(st) :
       operand.type \in {"Number", "Address"} =>
         /\ NUMBER_REGEXP(operand.rawValue)
         /\ hexToDec(operand.rawValue) \in 0..255
         /\ operand.value = [defined |-> TRUE, bytes |-> <<hexToDec(operand.rawValue)>>]
  /\ (status = "thrown" /\ error.name = "InvalidNumberError") =>
       /\ error.token.type \in {"Digits", "Unknown", "Address"}
       /\ NUMBER_REGEXP(error.token.value)
       /\ hexToDec(error.token.value) > 255
  /\ (status = "thrown" /\ error.name = "AddressError") =>
       /\ error.token.type = "Address"
       /\ ~NUMBER_REGEXP(error.token.value)

C2_Witness ==
  \E st \in Returned :
    /\ st.instruction.mnemonic = MOV
    /\ st.operands[2].type = "Number"
    /\ st.operands[2].rawValue = <<"F", "F">>
    /\ st.operands[2].value.bytes = <<255>>

ArithmeticMnemonics == {ADD, SUB, MUL, DIV, MOD, AND, OR, XOR}

RegisterToRegisterOpcode(mnemonic) ==
  CASE mnemonic = ADD -> "ADD_REG_TO_REG" [] mnemonic = SUB -> "SUB_REG_FROM_REG"
    [] mnemonic = MUL -> "MUL_REG_BY_REG" [] mnemonic = DIV -> "DIV_REG_BY_REG"
    [] mnemonic = MOD -> "MOD_REG_BY_REG" [] mnemonic = AND -> "AND_REG_WITH_REG"
    [] mnemonic = OR -> "OR_REG_WITH_REG" [] mnemonic = XOR -> "XOR_REG_WITH_REG"

ImmediateOpcode(mnemonic) ==
  CASE mnemonic = ADD -> "ADD_NUM_TO_REG" [] mnemonic = SUB -> "SUB_NUM_FROM_REG"
    [] mnemonic = MUL -> "MUL_REG_BY_NUM" [] mnemonic = DIV -> "DIV_REG_BY_NUM"
    [] mnemonic = MOD -> "MOD_REG_BY_NUM" [] mnemonic = AND -> "AND_REG_WITH_NUM"
    [] mnemonic = OR -> "OR_REG_WITH_NUM" [] mnemonic = XOR -> "XOR_REG_WITH_NUM"

C4_MovOpcodeByKinds ==
  \A st \in Returned :
    st.instruction.mnemonic = MOV =>
      LET kinds == Kinds(st)
          opcode == st.instruction.opcode
      IN  \/ kinds = <<"Register", "Number">> /\ opcode = "MOV_NUM_TO_REG"
          \/ kinds = <<"Register", "Address">> /\ opcode = "MOV_ADDR_TO_REG"
          \/ kinds = <<"Address", "Register">> /\ opcode = "MOV_REG_TO_ADDR"
          \/ kinds = <<"Register", "RegisterAddress">> /\ opcode = "MOV_REG_ADDR_TO_REG"
          \/ kinds = <<"RegisterAddress", "Register">> /\ opcode = "MOV_REG_TO_REG_ADDR"

C4_Witness ==
  \E st \in Returned :
    /\ st.instruction.mnemonic = MOV
    /\ Kinds(st) = <<"RegisterAddress", "Register">>
    /\ st.instruction.opcode = "MOV_REG_TO_REG_ADDR"

\* C5: when every statement of the input has parsed, parse returns only if
\* the last statement is END; otherwise it throws the missing-END error and
\* returns no statement.
C5_LastStatementIsEnd ==
  /\ (status = "returned" /\ returned # <<>>) =>
       returned[Len(returned)].instruction.mnemonic = END
  /\ status = "thrown" => returned = <<>>
  /\ ( /\ status # "parsing"
       /\ index >= Len(tokens)
       /\ statements # <<>>
       /\ statements[Len(statements)].instruction.mnemonic # END ) =>
       /\ status = "thrown"
       /\ error.name = "MissingEndError"

C5_Witness ==
  /\ status = "thrown"
  /\ error.name = "MissingEndError"
  /\ index >= Len(tokens)
  /\ Len(statements) = 2
  /\ statements[1].instruction.mnemonic = END

\* one or more uppercase letters or underscores
IsIdentifier(text) ==
  /\ text # <<>>
  /\ \A k \in 1..Len(text) : text[k] \in UpperLetters \cup {"_"}

\* the statement that starts at index starts with a token and a colon
ColonFollows == index + 1 < Len(tokens) /\ At(tokens, index + 1).type = "Colon"

InstructionAt == IF ColonFollows THEN index + 2 ELSE index

\* the statement at index is a two-operand statement whose first operand parses
FirstOperandParsed ==
  /\ index < Len(tokens)
  /\ ColonFollows => IsIdentifier(At(tokens, index).value)
  /\ InstructionAt < Len(tokens)
  /\ At(tokens, InstructionAt).type = "Unknown"
  /\ At(tokens, InstructionAt).value \in MnemonicWithTwoOperands
  /\ parseSingleOperand(tokens, InstructionAt + 1,
       {pair[1] : pair \in DoubleOperandTypes(At(tokens, InstructionAt).value)}).ok

\* C7: in a two-operand statement the token after the first operand is a
\* comma and the second operand is the token after the comma; when the token
\* after the first operand is not a comma, parse throws the missing-comma
\* error at that token.
C7_CommaBetweenOperands ==
  /\ \A st \in Parsed :
       Len(st.operands) = 2 =>
         LET first == PositionOfRange(st.operands[1].range)
         IN  /\ first = PositionOfRange(st.instruction.range) + 1
             /\ At(tokens, first + 1).type = "Comma"
             /\ st.operands[2].range = At(tokens, first + 2).range
             /\ st.operands[2].raw = At(tokens, first + 2).raw
  /\ ( /\ status = "thrown"
       /\ FirstOperandParsed
       /\ InstructionAt + 2 < Len(tokens)
       /\ At(tokens, InstructionAt + 2).type # "Comma" ) =>
       error = [name |-> "MissingCommaError", token |-> At(tokens, InstructionAt + 2)]
  /\ (status = "thrown" /\ error.name = "MissingCommaError") =>
       /\ FirstOperandParsed
       /\ error.token = At(tokens, InstructionAt + 2)
       /\ error.token.type # "Comma"

C7_Witness ==
  /\ status = "thrown"
  /\ FirstOperandParsed
  /\ error = [name |-> "MissingCommaError", token |-> At(tokens, InstructionAt + 2)]
  /\ error.token.type = "Register"

\* the bytes an operand stands for: none for a Label, one for each character
\* of a String, one otherwise
BytesOf(operand) ==
  CASE operand.type = "Label" -> <<>>
    [] operand.type = "String" ->
         [k \in 1..Len(operand.rawValue) |-> CharCode(operand.rawValue[k])]
    [] operand.type \in {"Number", "Address"} -> <<hexToDec(operand.rawValue)>>
    [] operand.type \in {"Register", "RegisterAddress"} ->
         <<GeneralPurposeRegister(operand.rawValue)>>

BytesInOrder(st) ==
  CASE Len(st.operands) = 0 -> <<>>
    [] Len(st.operands) = 1 -> BytesOf(st.operands[1])
    [] Len(st.operands) = 2 -> BytesOf(st.operands[1]) \o BytesOf(st.operands[2])

\* C8: the machineCode of every returned statement is its opcode, null and
\* left out only for ORG and DB, followed by the bytes of its operands in
\* operand order.
C8_MachineCodeIsOpcodeThenOperands ==
  \A st \in Returned :
    LET omitted == st.instruction.mnemonic \in {ORG, DB}
        skip == IF omitted THEN 0 ELSE 1
    IN  /\ (st.instruction.opcode = "null") <=> omitted
        /\ Len(st.machineCode) = skip + Len(BytesInOrder(st))
        /\ ~omitted => st.machineCode[1] = st.instruction.opcode
        /\ SubSeq(st.machineCode, skip + 1, Len(st.machineCode)) = BytesInOrder(st)

SameShape(a, b) ==
  a.instruction.mnemonic = b.instruction.mnemonic /\ Kinds(a) = Kinds(b)

HasString(st) == \E operand \in Operands(st) : operand.type = "String"

\* C9, as claimed: two returned statements with the same mnemonic and the
\* same operand kinds have machineCode of the same length.
C9_LengthFixedByShape ==
  \A a \in Returned : \A b \in Returned :
    SameShape(a, b) => Len(a.machineCode) = Len(b.machineCode)

\* C9, amended: two returned statements with the same mnemonic and the same
\* operand kinds, none of them a String, have machineCode of the same length;
\* with a String operand the length is the number of characters of the string.
C9_LengthFixedByShapeUnlessString ==
  /\ \A a \in Returned : \A b \in Returned :
       (SameShape(a, b) /\ ~HasString(a)) => Len(a.machineCode) = Len(b.machineCode)
  /\ \A st \in Returned :
       HasString(st) => Len(st.machineCode) = Len(st.operands[1].rawValue)

C9_Witness ==
  \E a \in Returned : \E b \in Returned :
    /\ SameShape(a, b)
    /\ Kinds(a) = <<"Number">>
    /\ a.operands[1].value.bytes = <<0>>
    /\ b.operands[1].value.bytes = <<16>>

\* the position of the last token of a statement whose instruction is at `at`
LastTokenOf(st, at) ==
  CASE Len(st.operands) = 0 -> at
    [] Len(st.operands) = 1 -> at + 1
    [] Len(st.operands) = 2 -> at + 3

\* C10, as claimed: the range of a returned statement starts at its label
\* when it has one, else at its instruction, and ends with its last operand,
\* or its instruction when it has no operand.
C10_RangeFromLabel ==
  \A st \in Returned :
    LET at == PositionOfRange(st.instruction.range)
    IN  /\ st.range.from = IF st.label # <<>> THEN st.label[1].range.from
                           ELSE At(tokens, at).range.from
        /\ st.range.to = At(tokens, LastTokenOf(st, at)).range.to

\* C10, amended: the range of a returned statement starts at its instruction,
\* after the label when it has one, and ends with its last operand, or its
\* instruction when it has no operand.
C10_RangeFromInstruction ==
  \A st \in Returned :
    LET at == PositionOfRange(st.instruction.range)
    IN  /\ st.range.from = At(tokens, at).range.from
        /\ st.range.to = At(tokens, LastTokenOf(st, at)).range.to
        /\ st.label # <<>> => st.label[1].range.to < st.range.from

C10_Witness ==
  \E st \in Returned :
    /\ st.label # <<>>
    /\ Len(st.operands) = 1
    /\ st.range.from > st.label[1].range.from

\* the statements of a token sequence parsed one after the other from index
\* i, up to the first one that does not parse
RECURSIVE ParseAll(_, _, _)
ParseAll(toks, i, acc) ==
  IF i >= Len(toks)
  THEN [failed |-> FALSE, at |-> i, parsed |-> acc, error |-> NoError]
  ELSE
    LET result == parseStatement(toks, i)
    IN  IF result.ok
        THEN ParseAll(toks, i + result.value[2], Append(acc, result.value[1]))
        ELSE [failed |-> TRUE, at |-> i, parsed |-> acc, error |-> result.error]

\* C11: when a statement of the input does not parse, parse throws the error
\* of the earliest such statement and returns no statement, whatever parsed
\* before it; the missing-END error on the last statement is thrown only when
\* every statement of the input parsed.
C11_EarliestErrorOnly ==
  status # "parsing" =>
    LET all == ParseAll(tokens, 0, <<>>)
    IN  /\ statements = all.parsed
        /\ all.failed <=> (status = "thrown" /\ index < Len(tokens))
        /\ all.failed => (index = all.at /\ error = all.error)
        /\ status = "thrown" => returned = <<>>
        /\ (status = "thrown" /\ ~all.failed) =>
             /\ index >= Len(tokens)
             /\ error = [name |-> "MissingEndError", token |-> NoToken]
             /\ statements # <<>>
             /\ statements[Len(statements)].instruction.mnemonic # END
        /\ status = "returned" => (returned = all.parsed /\ error = NoError)

C11_Witness ==
  /\ status = "thrown"
  /\ index < Len(tokens)
  /\ Len(statements) = 2
  /\ error.name = "StatementError"
  /\ returned = <<>>

\* an Unknown token that stands for an unterminated bracket, a single quote
\* or an unterminated string, and the error that names it
PreciseErrorOf(token) ==
  IF token.type # "Unknown" THEN "none"
  ELSE IF startsWith(token.raw, "[") THEN "UnterminatedAddressError"
  ELSE IF startsWith(token.raw, "'") THEN "SingleQuoteError"
  ELSE IF startsWith(token.raw, "\"") THEN "UnterminatedStringError"
  ELSE "none"

\* C12: parse never accepts an Unknown token that stands for an unterminated
\* bracket, a single quote or an unterminated string, and an error thrown at
\* such a token is the unterminated-address, single-quote or
\* unterminated-string error that matches it, wherever the token stands.
C12_PreciseErrorAtUnterminated ==
  /\ \A k \in 1..Len(tokens) :
       PreciseErrorOf(tokens[k]) # "none" => status # "returned"
  /\ (status = "thrown" /\ error.token # NoToken) =>
       (PreciseErrorOf(error.token) # "none" =>
          error.name = PreciseErrorOf(error.token))

\* C12 holds of the operand positions: an error thrown at such a token where
\* an operand is parsed is the matching one
C12_PreciseErrorAtOperand ==
  (status = "thrown" /\ error.token # NoToken /\ PreciseErrorOf(error.token) # "none") =>
    \/ error.name = PreciseErrorOf(error.token)
    \/ error.name \in {"StatementError", "InvalidLabelError", "MissingCommaError"}

(***************************************************************************)
(* Properties of the Controller.                                           *)
(***************************************************************************)
\* the last engine invocation since the last reset, and the one before it
last == invocations[1]

previous == last.previous[1]

InvokedAgain == invocations # <<>> /\ last.previous # <<>>

\* C13: after an engine step whose output signals report halted, step does
\* not invoke the engine again until the CPU state is reset
C13_NoStepAfterHalted ==
  InvokedAgain => previous.outcome # "halted"

\* the CPU status is marked halted after such a step (it is not: the reducer
\* stores the payload, and setCpuHalted is dispatched without one)
C13_MarkedHalted ==
  (invocations # <<>> /\ last.outcome = "halted") => Truthy(store.cpu.status.halted)

\* a timer that calls step is active
StepIntervalActive(timers) == \E timer \in timers : timer.callback = "step"

\* C14: a step in which the engine raises a RuntimeError records the fault in
\* the CPU status, stops the run loop and resolves lastStep with undefined,
\* and the engine is not invoked again until the CPU state is reset: no
\* later invocation of the engine follows it
C14_FaultStopsTheEngine ==
  [][(invocations' # <<>> /\ invocations'[1].outcome = "RuntimeError") =>
       /\ store'.cpu.status.fault = "RuntimeError"
       /\ controller'.lastStep = <<>>
       /\ invocations'[1].previous # <<>> =>
            invocations'[1].previous[1].outcome # "RuntimeError"
       /\ invocations' # invocations =>
            ~store'.isRunning /\ ~StepIntervalActive(intervals')]_vars

\* the part of it that holds: the fault is recorded, lastStep is resolved
\* with undefined and no invocation of the engine follows the fault
C14_NoStepAfterFault ==
  /\ InvokedAgain => previous.outcome # "RuntimeError"
  /\ (invocations # <<>> /\ last.outcome = "RuntimeError") =>
       store.cpu.status.fault = "RuntimeError" /\ controller.lastStep = <<>>

\* C15: a step that is asked for input when no input data is available
\* suspends the Controller, no engine invocation is made while it is
\* suspended, and a setSuspended(false) of the views triggers exactly one
\* step, which hands the engine the state the suspending step returned and
\* the input data then in the store
C15_ResumeWithSameState ==
  /\ (invocations # <<>> /\ last.outcome = "suspended" /\ last.resumed = 0
        /\ ~last.reset) =>
       store.isSuspended
  /\ store.isSuspended =>
       invocations # <<>> /\ last.outcome = "suspended" /\ last.resumed = 0
  /\ (invocations # <<>> /\ last.outcome = "suspended" /\ ~last.reset
        /\ ~store.isSuspended) =>
       /\ last.resumed = 1
       /\ microtasks = <<controller.lastStep>>
       /\ controller.lastStep # <<>>
       /\ controller.lastStep[1].n = last.output
  /\ (InvokedAgain /\ previous.outcome = "suspended" /\ ~previous.reset) =>
       /\ previous.resumed = 1
       /\ ~last.fromStore
       /\ last.input = previous.output
       /\ last.data = "data"

C15_Witness ==
  /\ InvokedAgain
  /\ previous.outcome = "suspended"
  /\ ~previous.reset
  /\ previous.resumed = 1
  /\ last.input = previous.output
  /\ last.outcome = "returned"

\* C16: between two resets of lastStep, every engine invocation is handed
\* the state that the invocation before it returned, whatever the
\* interleaving of the step calls: no returned state is used as input twice
C16_NoStateUsedTwice ==
  (InvokedAgain /\ previous.outcome \in {"returned", "suspended"}
     /\ ~previous.reset) =>
    last.input = previous.output /\ ~last.fromStore

\* a timer that raises the interrupt request is active
InterruptIntervalActive(timers) ==
  \E timer \in timers : timer.callback = "setInterrupt"

\* C17: while the Controller is suspended waiting for input no timer that
\* raises the interrupt request is active
C17_NoInterruptIntervalWhileSuspended ==
  store.isSuspended => ~InterruptIntervalActive(intervals)

\* C18: while the program is running, a step that reports that the interrupt
\* flag became set leaves a timer that raises the interrupt request active,
\* a step that reports that it became cleared leaves none active, and
\* stopping the run loop leaves none active
C18_InterruptIntervalFollowsFlag ==
  [][/\ (stepCount' # stepCount /\ store.isRunning
           /\ invocations'[1].interruptFlagSet = "true") =>
          InterruptIntervalActive(intervals')
     /\ (stepCount' # stepCount /\ store.isRunning
           /\ invocations'[1].interruptFlagSet = "false") =>
          ~InterruptIntervalActive(intervals')
     /\ (store.isRunning /\ ~store'.isRunning) =>
          ~InterruptIntervalActive(intervals')]_vars

\* C19: after the engine threw an error that is not a RuntimeError, no
\* further engine step is executed on the state it was given until a reset
C19_NoStepAfterUnexpectedError ==
  (InvokedAgain /\ previous.outcome = "Error") => last.input # previous.input

\* the part of it that holds: the error is surfaced as the unexpected error
\* and lastStep is resolved with undefined
C19_Surfaced ==
  (invocations # <<>> /\ last.outcome = "Error") =>
    store.unexpectedError /\ controller.lastStep = <<>>

\* the active range of the editor for a step that returned result when the
\* assembler had mapped the addresses as in map: the statement mapped at
\* the instruction pointer if the memory holds its machine code there, byte
\* by byte, and none otherwise
ActiveRangeOf(result, map) ==
  LET ip == result.cpuRegisters.ip
      memoryData == result.memoryData
  IN  IF ip \notin DOMAIN map THEN <<>>
      ELSE
        LET machineCode == map[ip].machineCode
        IN  IF \A k \in DOMAIN machineCode :
                 /\ ip + k <= Len(memoryData)
                 /\ memoryData[ip + k] = machineCode[k]
            THEN <<map[ip]>>
            ELSE <<>>

\* C20: when the deferred changes of a step are dispatched, the active range
\* is set to the statement mapped at the new instruction pointer only if
\* every byte of its machine code equals the memory the step returned, from
\* the instruction pointer on, and is cleared otherwise
C20_ActiveRangeMatchesMemory ==
  [][DispatchChangesFires =>
       /\ store'.machine = Head(timeouts).result
       /\ store'.activeRange =
            ActiveRangeOf(Head(timeouts).result,
                          Head(timeouts).addressToStatementMap)]_vars

\* the changes of a step whose memory differs from the machine code in a
\* later byte have been dispatched, and of a step that left the instruction
\* pointer where no statement is mapped
C20_Witness ==
  /\ store.machine.n > 0
  /\ store.activeRange = <<>>
  /\ \/ store.machine.memoryData = <<1, 1, 0>>
     \/ store.machine.cpuRegisters.ip = 1

\* the lowest of a set of lines
FirstLine(lines) ==
  (CHOOSE lineLoc \in lines : \A other \in lines : lineLoc.number <= other.number).number

\* C21: while running, a step that does not suspend and leaves the
\* instruction pointer on a statement whose range, label included, overlaps
\* a breakpoint line stops the run loop and schedules the dispatch of its
\* state, unless that line is the line the run loop last stopped on and no
\* step since has landed on a statement outside every breakpoint line; a
\* step made while not running is never stopped
C21_BreakpointStopsRunLoop ==
  [][(stepCount' # stepCount /\ invocations'[1].outcome = "returned") =>
       LET result == controller'.lastStep[1]
           lines == BreakpointLinesAt(store, result)
           before == IF invocations = <<>> THEN 0 ELSE invocations[1].stoppedOn
       IN  /\ (store.isRunning /\ OnStatement(store, result) /\ lines # {}
                 /\ FirstLine(lines) # before) =>
                /\ ~store'.isRunning
                /\ ~StepIntervalActive(intervals')
                /\ timeouts' # <<>>
                /\ timeouts'[Len(timeouts')].result = result
           /\ ~store.isRunning =>
                ~store'.isRunning /\ intervals' = intervals]_vars

\* the run loop has stopped on the breakpoint on the line of the label of
\* the first statement, and the state of the step is about to be dispatched
C21_Witness ==
  /\ invocations # <<>>
  /\ last.stoppedOn = 1
  /\ last.outcome = "returned"
  /\ stepCount = MaxDebugSteps
  /\ ~store.isRunning
  /\ controller.lastBreakpointLineNumber = 1
  /\ timeouts # <<>>
  /\ <<timeouts[Len(timeouts)].result>> = controller.lastStep

\* the timers that call callback
TimersOf(callback) == {timer \in intervals : timer.callback = callback}

\* C22: at most one timer that calls step and at most one timer that raises
\* the interrupt request is active: no timer is leaked by overwriting its
\* stored id while it runs
C22_NoTimerLeaked ==
  /\ Cardinality(TimersOf("step")) <= 1
  /\ Cardinality(TimersOf("setInterrupt")) <= 1

\* the same for the timers that call step alone
C22_NoStepTimerLeaked == Cardinality(TimersOf("step")) <= 1

\* C23: a timer that calls step is active only while the isRunning flag of
\* the store is true
C23_StepTimerOnlyWhileRunning ==
  StepIntervalActive(intervals) => store.isRunning

\* C24: after reset has returned, the store is never overwritten by the
\* result of a step that was executed before it
C24_NoDispatchFromBeforeReset ==
  store.machine.n # -1

\* no step call and no dispatch is pending
Quiescent == microtasks = <<>> /\ timeouts = <<>>

\* C25: once the Controller has stopped stepping because the engine halted
\* or raised a RuntimeError and every scheduled dispatch has run, the store
\* holds the memory and the registers that the last engine step that
\* returned has returned
C25_StoreShowsLastStep ==
  (invocations # <<>> /\ last.outcome \in {"halted", "RuntimeError"}
     /\ last.returnedState # <<>> /\ ~last.reset /\ Quiescent) =>
    /\ store.machine.memoryData = last.returnedState[1].memoryData
    /\ store.machine.cpuRegisters = last.returnedState[1].cpuRegisters

\* C26: fullyStop, and reset through it, called while the Controller is
\* suspended clears the suspended flag without running the listener of the
\* suspension: no step is called, no timer is started, and no listener is
\* left for a later setSuspended(false) to run
C26_FullyStopCancelsSuspension ==
  [][((FullyStop \/ Reset) /\ store.isSuspended) =>
       /\ ~store'.isSuspended
       /\ microtasks' = <<>>
       /\ intervals' \subseteq intervals
       /\ listeners' = {}]_vars

\* fullyStop has ended a suspension: the step that suspended is the last
\* engine invocation and no step call has followed it
C26_Witness ==
  /\ invocations # <<>>
  /\ last.outcome = "suspended"
  /\ last.reset
  /\ last.resumed = 0
  /\ ~store.isSuspended
  /\ listeners = {}
  /\ microtasks = <<>>

====
